---- MODULE Spec2Model ----
(***************************************************************************)
(* NDVI extraction and aggregation of the vegetation-detector backend.     *)
(*                                                                         *)
(* Three reducers are modelled, each from its own source:                  *)
(*   "service"   calculateNdvi          (GeoTIFFService, behind            *)
(*               getNdviData of the NDVI controller, GET /api/ndvi)        *)
(*   "route"     the inline NDVI loop of the older route handler           *)
(*   "simulated" calculateNDVIForLocation of the dynamic GeoTIFF service   *)
(*                                                                         *)
(* JavaScript numbers are modelled as exact rationals plus NaN, the two    *)
(* infinities and the value `undefined` (what an out-of-range index        *)
(* yields).  With the pixel values of Vals no mean lies on a rounding tie  *)
(* of the 4th decimal, so exact rationals and IEEE doubles print alike.    *)
(* Text (the result of toFixed) is a sequence of one-character strings.    *)
(***************************************************************************)
EXTENDS Integers, Sequences, FiniteSets, TLC

VARIABLES pc, path, query, redRaster, nirRaster, dims,
          i, ndvi, sum, count, result, response, sent, threw

\* threw records where an exception was raised ("none" while none was): it
\* is read by no action.
vars == <<pc, path, query, redRaster, nirRaster, dims,
          i, ndvi, sum, count, result, response, sent, threw>>

\* ------------------------------------------------------------------------
\* Bounds of the model.
\* ------------------------------------------------------------------------
\* Longest raster that storage or a caller supplies.
MaxLen == 4

\* The pixel cap: 1000000 in the source.  It is scaled down so that rasters
\* longer than the cap exist among the enumerated inputs.
maxPixels == 3

\* The end index of ndvi.slice(0, 100): 100 in the source, scaled down so
\* that per-pixel outputs longer than the sample exist.
sampleEnd == 2

\* Number of digits toFixed is asked for.
fractionDigits == 4

\* Pixel values held by the rasters (reflectance; a signed raster type can
\* hold a negative sample).
Vals == {-100, 0, 100, 300}

\* ------------------------------------------------------------------------
\* JavaScript numbers.
\* ------------------------------------------------------------------------
Abs(x) == IF x < 0 THEN -x ELSE x

Min(a, b) == IF a < b THEN a ELSE b

Sign(x) == IF x < 0 THEN -1 ELSE 1

RECURSIVE GCD(_, _)
GCD(a, b) == IF b = 0 THEN a ELSE GCD(b, a % b)

\* The rational n/d (d # 0) in lowest terms with a positive denominator.
Num(n, d) ==
  LET g == GCD(Abs(n), Abs(d))
      s == Sign(d)
  IN  [k |-> "num", n |-> (s * n) \div g, d |-> (s * d) \div g]

NaN == [k |-> "nan", n |-> 0, d |-> 1]

Infinity(s) == [k |-> "inf", n |-> s, d |-> 1]

undefined == [k |-> "undefined", n |-> 0, d |-> 1]

\* ToNumber: undefined converts to NaN, a number to itself.
ToNumber(v) == IF v.k = "undefined" THEN NaN ELSE v

\* a + b
JsAdd(a, b) ==
  LET x == ToNumber(a)
      y == ToNumber(b)
  IN  IF x.k = "nan" \/ y.k = "nan" THEN NaN
      ELSE IF x.k = "inf" /\ y.k = "inf" THEN (IF x.n = y.n THEN x ELSE NaN)
      ELSE IF x.k = "inf" THEN x
      ELSE IF y.k = "inf" THEN y
      ELSE Num(x.n * y.d + y.n * x.d, x.d * y.d)

JsNeg(a) ==
  LET x == ToNumber(a)
  IN  IF x.k = "nan" THEN NaN
      ELSE IF x.k = "inf" THEN Infinity(-x.n)
      ELSE Num(-x.n, x.d)

\* a - b
JsSub(a, b) == JsAdd(a, JsNeg(b))

\* a / b
JsDiv(a, b) ==
  LET x == ToNumber(a)
      y == ToNumber(b)
  IN  IF x.k = "nan" \/ y.k = "nan" THEN NaN
      ELSE IF x.k = "inf" /\ y.k = "inf" THEN NaN
      ELSE IF x.k = "inf" THEN Infinity(x.n * Sign(y.n))
      ELSE IF y.k = "inf" THEN Num(0, 1)
      ELSE IF y.n = 0 THEN (IF x.n = 0 THEN NaN ELSE Infinity(Sign(x.n)))
      ELSE Num(x.n * y.d, x.d * y.n)

\* Variant of NotStrictEqualZero: the zero test is dropped.
NotStrictEqualZero_Always(v) == TRUE

\* v !== 0
NotStrictEqualZero(v) == ~(v.k = "num" /\ v.n = 0)

\* a >= b  (false when either side is NaN)
JsGeq(a, b) ==
  LET x == ToNumber(a)
      y == ToNumber(b)
  IN  IF x.k = "nan" \/ y.k = "nan" THEN FALSE
      ELSE IF x.k = "inf" THEN x.n > 0 \/ (y.k = "inf" /\ y.n < 0)
      ELSE IF y.k = "inf" THEN y.n < 0
      ELSE x.n * y.d >= y.n * x.d

\* a > b  (false when either side is NaN)
JsGt(a, b) == JsGeq(a, b) /\ ~JsGeq(b, a)

\* a < b
JsLt(a, b) == JsGt(b, a)

\* a * b
JsMul(a, b) ==
  LET x == ToNumber(a)
      y == ToNumber(b)
  IN  IF x.k = "nan" \/ y.k = "nan" THEN NaN
      ELSE IF x.k = "inf" \/ y.k = "inf"
        THEN (IF x.n = 0 \/ y.n = 0 THEN NaN
              ELSE Infinity(Sign(x.n) * Sign(y.n)))
      ELSE Num(x.n * y.n, x.d * y.d)

null == [k |-> "null", n |-> 0, d |-> 1]

\* !v for a number, null or undefined
Falsy(v) == v.k \in {"null", "undefined", "nan"} \/ (v.k = "num" /\ v.n = 0)

\* ------------------------------------------------------------------------
\* Number.prototype.toFixed and parseFloat.
\* ------------------------------------------------------------------------
Digits == <<"0", "1", "2", "3", "4", "5", "6", "7", "8", "9">>

RECURSIVE Pow10(_)
Pow10(f) == IF f = 0 THEN 1 ELSE 10 * Pow10(f - 1)

RECURSIVE IntChars(_)
IntChars(n) ==
  IF n < 10 THEN <<Digits[n + 1]>>
  ELSE IntChars(n \div 10) \o <<Digits[(n % 10) + 1]>>

RECURSIVE FracChars(_, _)
FracChars(n, f) ==
  IF f = 0 THEN <<>>
  ELSE FracChars(n \div 10, f - 1) \o <<Digits[(n % 10) + 1]>>

\* x.toFixed(f), f > 0: "NaN" for NaN; otherwise the sign, then the integer
\* n for which n / 10^f - |x| is closest to zero (the larger n on a tie),
\* printed with f digits after the point.
toFixed(x, f) ==
  IF x.k = "nan" THEN <<"N", "a", "N">>
  ELSE IF x.k = "inf"
    THEN (IF x.n < 0 THEN <<"-">> ELSE <<>>)
         \o <<"I", "n", "f", "i", "n", "i", "t", "y">>
  ELSE LET a == Abs(x.n)
           n == (2 * a * Pow10(f) + x.d) \div (2 * x.d)
       IN  (IF x.n < 0 THEN <<"-">> ELSE <<>>)
           \o IntChars(n \div Pow10(f)) \o <<".">> \o FracChars(n % Pow10(f), f)

IsDigit(c) == \E v \in 1..10 : Digits[v] = c

DigitVal(c) == (CHOOSE v \in 1..10 : Digits[v] = c) - 1

\* The longest prefix of s, from position p, that reads as digits with at
\* most one point: <<mantissa, scale, digits read>>.
RECURSIVE ParseDecimal(_, _, _, _, _, _)
ParseDecimal(s, p, mant, scale, dot, seen) ==
  IF p > Len(s) THEN <<mant, scale, seen>>
  ELSE IF IsDigit(s[p])
    THEN ParseDecimal(s, p + 1, 10 * mant + DigitVal(s[p]),
                      IF dot THEN 10 * scale ELSE scale, dot, seen + 1)
  ELSE IF s[p] = "." /\ ~dot
    THEN ParseDecimal(s, p + 1, mant, scale, TRUE, seen)
  ELSE <<mant, scale, seen>>

\* parseFloat(s) for the texts toFixed produces (a number is returned as is).
parseFloat(s) ==
  LET neg  == Len(s) > 0 /\ s[1] = "-"
      body == IF neg THEN Tail(s) ELSE s
      r    == ParseDecimal(body, 1, 0, 1, FALSE, 0)
  IN  IF body = <<"I", "n", "f", "i", "n", "i", "t", "y">>
        THEN Infinity(IF neg THEN -1 ELSE 1)
      ELSE IF r[3] = 0 THEN NaN
      ELSE Num(IF neg THEN -r[1] ELSE r[1], r[2])

\* The longest prefix of s, from position p, that reads as digits:
\* <<value, digits read>>.
RECURSIVE ParseDigits(_, _, _, _)
ParseDigits(s, p, val, seen) ==
  IF p > Len(s) \/ ~IsDigit(s[p]) THEN <<val, seen>>
  ELSE ParseDigits(s, p + 1, 10 * val + DigitVal(s[p]), seen + 1)

\* parseInt(s) for a decimal text
parseInt(s) ==
  LET neg  == Len(s) > 0 /\ s[1] = "-"
      body == IF neg THEN Tail(s) ELSE s
      r    == ParseDigits(body, 1, 0, 0)
  IN  IF r[2] = 0 THEN NaN ELSE Num(IF neg THEN -r[1] ELSE r[1], 1)

\* Math.sqrt(n) for an integer n >= 0: the root when n is a perfect square,
\* otherwise the irrational root kept symbolically.
MathSqrt(n) ==
  IF \E r \in 0..n : r * r = n
    THEN Num(CHOOSE r \in 0..n : r * r = n, 1)
    ELSE [k |-> "sqrt", n |-> n, d |-> 1]

\* ------------------------------------------------------------------------
\* Inputs: stored rasters, decoded images, requests.
\* ------------------------------------------------------------------------
\* A raster of L pixels in scan order, its values repeating the pair p.
Band(p, L) == [j \in 1..L |-> p[((j - 1) % 2) + 1]]

Rasters == {Band(p, L) : p \in Vals \X Vals, L \in 0..MaxLen}

\* The declared dimensions of an image whose raster has L pixels.
Dimensions(L) ==
  {wh \in (0..L) \X (0..L) : wh[1] * wh[2] = L /\ (L = 0 \/ wh[1] > 0)}

NoDims == <<0, 0>>

\* req.query of GET /api/ndvi: the parameters present and their parsed values.
Query(hasLat, lat, hasLon, lon, hasArea) ==
  [hasLat |-> hasLat, lat |-> lat, hasLon |-> hasLon, lon |-> lon,
   hasArea |-> hasArea]

NoQuery == Query(FALSE, 0, FALSE, 0, FALSE)

Queries ==
  {NoQuery,
   Query(TRUE, 28, TRUE, 77, TRUE),
   Query(TRUE, 28, FALSE, 0, FALSE),
   Query(TRUE, 91, TRUE, 77, FALSE),
   Query(TRUE, 28, TRUE, -181, TRUE)}

\* Variant of validateCoordinates: the longitude is not tested.
validateCoordinates_LatitudeOnly(latitude, longitude) ==
  /\ JsGeq(latitude, Num(-90, 1)) /\ JsGeq(Num(90, 1), latitude)

\* Both arguments are numbers (NaN is one, and fails every comparison).
validateCoordinates(latitude, longitude) ==
  /\ JsGeq(latitude, Num(-90, 1)) /\ JsGeq(Num(90, 1), latitude)
  /\ JsGeq(longitude, Num(-180, 1)) /\ JsGeq(Num(180, 1), longitude)

\* ------------------------------------------------------------------------
\* The state.
\* ------------------------------------------------------------------------
NoResult == [none |-> TRUE]

NoResponse == [status |-> 0, body |-> [unsent |-> TRUE]]

\* The awaited steps of the file-backed supplier, in program order.
Stages ==
  <<"download_red", "download_nir", "parse_red", "parse_nir",
    "image_red", "image_nir", "read_red", "read_nir">>

StageAfter(st) ==
  LET p == CHOOSE q \in 1..Len(Stages) : Stages[q] = st
  IN  IF p = Len(Stages) THEN "loop" ELSE Stages[p + 1]

IsStage(st) == \E q \in 1..Len(Stages) : Stages[q] = st

Init ==
  /\ pc = "idle"
  /\ path = "none"
  /\ query = NoQuery
  /\ redRaster = <<>>
  /\ nirRaster = <<>>
  /\ dims = NoDims
  /\ i = 0
  /\ ndvi = <<>>
  /\ sum = Num(0, 1)
  /\ count = 0
  /\ result = NoResult
  /\ response = NoResponse
  /\ sent = 0
  /\ threw = "none"

\* res.status(s).json(b)
Send(s, b) ==
  /\ response' = [status |-> s, body |-> b]
  /\ sent' = sent + 1

\* Variant of ReadPixel: an index past the end raises instead of yielding
\* undefined.
ReadPixel_Throws(raster, idx) ==
  IF idx + 1 \in DOMAIN raster
    THEN Num(raster[idx + 1], 1)
    ELSE [k |-> "throw", n |-> 0, d |-> 1]

\* raster[i] with the 0-based index of the source.
ReadPixel(raster, idx) ==
  IF idx + 1 \in DOMAIN raster THEN Num(raster[idx + 1], 1) ELSE undefined

\* ------------------------------------------------------------------------
\* GET /api/ndvi: getNdviData, up to the call of calculateNdvi.
\* ------------------------------------------------------------------------
\* Variant of getNdviData: the coordinates are not validated before the
\* computation starts.
getNdviData_NoValidation(q) ==
  /\ pc = "idle"
  /\ path' = "service"
  /\ query' = q
  /\ pc' = "download_red"
  /\ UNCHANGED <<redRaster, nirRaster, dims, i, ndvi, sum, count, result,
                 response, sent, threw>>

getNdviData(q) ==
  /\ pc = "idle"
  /\ path' = "service"
  /\ query' = q
  /\ IF q.hasLat /\ q.hasLon
        /\ ~validateCoordinates(Num(q.lat, 1), Num(q.lon, 1))
       THEN /\ Send(400, [error |-> "Invalid coordinates provided"])
            /\ pc' = "done"
       ELSE /\ pc' = "download_red"
            /\ UNCHANGED <<response, sent>>
  /\ UNCHANGED <<redRaster, nirRaster, dims, i, ndvi, sum, count, result>>
  /\ UNCHANGED threw

\* The older route handler, which reduces inline.
routeNdvi ==
  /\ pc = "idle"
  /\ path' = "route"
  /\ pc' = "download_red"
  /\ UNCHANGED <<query, redRaster, nirRaster, dims, i, ndvi, sum, count,
                 result, response, sent>>
  /\ UNCHANGED threw

\* Variant of Catch: the failure is swallowed into a fabricated zero result.
Catch_Fabricates ==
  /\ pc' = "done"
  /\ threw' = pc
  /\ Send(200, [meanNdvi |-> <<"0", ".", "0", "0", "0", "0">>,
                sample |-> <<>>, width |-> 0, height |-> 0])

\* The catch block of the handler the request runs in.
Catch ==
  /\ pc' = "done"
  /\ threw' = pc
  /\ IF path = "service"
       THEN Send(500, [error |-> "NDVI computation failed",
                       details |-> "err.message"])
       ELSE Send(500, [error |-> "NDVI computation failed"])

\* An awaited step of the supplier (download, fromArrayBuffer, getImage,
\* readRasters) rejects: the rejection reaches the handler's catch.
AwaitRejects ==
  /\ IsStage(pc)
  /\ Catch
  /\ UNCHANGED <<path, query, redRaster, nirRaster, dims, i, ndvi, sum,
                 count, result>>

\* A download, fromArrayBuffer or getImage resolves.
AwaitResolves ==
  /\ IsStage(pc)
  /\ pc \notin {"read_red", "read_nir"}
  /\ pc' = StageAfter(pc)
  /\ UNCHANGED <<path, query, redRaster, nirRaster, dims, i, ndvi, sum,
                 count, result, response, sent>>
  /\ UNCHANGED threw

\* (await redImage.readRasters())[0]; the red image also declares the
\* dimensions that getWidth and getHeight report.
ReadRedRaster(raster, wh) ==
  /\ pc = "read_red"
  /\ redRaster' = raster
  /\ dims' = wh
  /\ pc' = StageAfter(pc)
  /\ UNCHANGED <<path, query, nirRaster, i, ndvi, sum, count, result,
                 response, sent>>
  /\ UNCHANGED threw

\* (await nirImage.readRasters())[0]
ReadNirRaster(raster) ==
  /\ pc = "read_nir"
  /\ nirRaster' = raster
  /\ pc' = StageAfter(pc)
  /\ UNCHANGED <<path, query, redRaster, dims, i, ndvi, sum, count, result,
                 response, sent>>
  /\ UNCHANGED threw

\* The simulated supplier hands two bands to calculateNDVIForLocation.
calculateNDVIForLocation(red, nir) ==
  /\ pc = "idle"
  /\ path' = "simulated"
  /\ redRaster' = red
  /\ nirRaster' = nir
  /\ pc' = "loop"
  /\ UNCHANGED <<query, dims, i, ndvi, sum, count, result, response, sent>>
  /\ UNCHANGED threw

\* The length of a generated band: 1000 in the source, scaled down.
bandLength == 3

\* The latitudes a simulated request is made for, in degrees.
SimLatitudes == {-90, 0, 90}

\* Math.sin(latitude * Math.PI / 180) at the latitudes of SimLatitudes.
MathSin(latitude) ==
  CASE latitude = -90 -> -1
    [] latitude = 0   -> 0
    [] latitude = 90  -> 1

\* The values of Math.random() behind one pixel, in thousandths: the draw
\* for the red band and the draw for the NIR band.  <<950, 0>> gives the
\* largest red value with the smallest NIR value.
RandomDraws == {<<0, 0>>, <<450, 500>>, <<950, 0>>}

\* Math.floor(baseValue + random * spread) with random in thousandths.
GeneratedPixel(baseValue, random, spread) ==
  (1000 * baseValue + random * spread) \div 1000

\* extractRedBand: random[j] is the value of Math.random() for pixel j.
extractRedBand(latitude, random) ==
  [j \in 1..bandLength |->
     GeneratedPixel(120 + MathSin(latitude) * 30, random[j], 20)]

\* Variant of extractNIRBand: the base value is 100 instead of 200.
extractNIRBand_LowBase(latitude, random) ==
  [j \in 1..bandLength |->
     GeneratedPixel(100 + MathSin(latitude) * 50, random[j], 30)]

\* extractNIRBand: random[j] is the value of Math.random() for pixel j.
extractNIRBand(latitude, random) ==
  [j \in 1..bandLength |->
     GeneratedPixel(200 + MathSin(latitude) * 50, random[j], 30)]

\* fetchSatelliteDataForLocation: both bands are generated for the latitude
\* and handed to calculateNDVIForLocation.  draws[j] is the pair of random
\* values behind pixel j.
fetchSatelliteDataForLocation(latitude, draws) ==
  /\ pc = "idle"
  /\ path' = "simulated"
  /\ query' = [latitude |-> latitude]
  /\ redRaster' = extractRedBand(latitude, [j \in 1..bandLength |-> draws[j][1]])
  /\ nirRaster' = extractNIRBand(latitude, [j \in 1..bandLength |-> draws[j][2]])
  /\ pc' = "loop"
  /\ UNCHANGED <<dims, i, ndvi, sum, count, result, response, sent>>
  /\ UNCHANGED threw

\* ------------------------------------------------------------------------
\* The reduction loop.
\* ------------------------------------------------------------------------
\* Variant of LoopBound: the file-backed loops run without the pixel cap.
LoopBound_Uncapped ==
  IF path = "simulated"
    THEN Min(Len(redRaster), Len(nirRaster))
    ELSE Len(redRaster)

\* The bound in the loop condition.
LoopBound ==
  IF path = "simulated"
    THEN Min(Len(redRaster), Len(nirRaster))
    ELSE Min(Len(redRaster), maxPixels)

\* Variant of NdviValue: numerator and denominator exchanged.
NdviValue_Swapped(nir, red) == JsDiv(JsAdd(nir, red), JsSub(nir, red))

\* (nir - red) / (nir + red)
NdviValue(nir, red) == JsDiv(JsSub(nir, red), JsAdd(nir, red))

\* An exception thrown inside the reducer: in a handler it reaches the
\* catch block; calculateNDVIForLocation lets it propagate to its caller.
Throw ==
  IF path = "simulated"
    THEN /\ pc' = "done"
         /\ threw' = pc
         /\ result' = [threw |-> TRUE]
         /\ UNCHANGED <<response, sent>>
    ELSE /\ Catch
         /\ UNCHANGED result

\* Variant of LoopStep: a pixel with a zero denominator is skipped without
\* a placeholder in the per-pixel output.
LoopStep_NoPlaceholder ==
  /\ pc = "loop"
  /\ i < LoopBound
  /\ LET red == ReadPixel(redRaster, i)
         nir == ReadPixel(nirRaster, i)
     IN  /\ IF NotStrictEqualZero(JsAdd(nir, red))
              THEN LET val == NdviValue(nir, red)
                   IN  /\ ndvi' = Append(ndvi, val)
                       /\ sum' = JsAdd(sum, val)
                       /\ count' = count + 1
              ELSE UNCHANGED <<ndvi, sum, count>>
         /\ i' = i + 1
         /\ UNCHANGED <<pc, result, response, sent, threw>>
  /\ UNCHANGED <<path, query, redRaster, nirRaster, dims>>

\* One iteration of the loop body.  Indexing a raster never throws: past
\* the end it yields undefined (ReadPixel).
LoopStep ==
  /\ pc = "loop"
  /\ i < LoopBound
  /\ LET red == ReadPixel(redRaster, i)
         nir == ReadPixel(nirRaster, i)
     IN  IF red.k = "throw" \/ nir.k = "throw"
           THEN /\ Throw
                /\ UNCHANGED <<i, ndvi, sum, count>>
         ELSE /\ IF NotStrictEqualZero(JsAdd(nir, red))
                   THEN LET val == NdviValue(nir, red)
                        IN  /\ ndvi' = Append(ndvi, val)
                            /\ sum' = JsAdd(sum, val)
                            /\ count' = count + 1
                   ELSE /\ ndvi' = Append(ndvi, Num(0, 1))
                        /\ UNCHANGED <<sum, count>>
              /\ i' = i + 1
              /\ UNCHANGED <<pc, result, response, sent, threw>>
  /\ UNCHANGED <<path, query, redRaster, nirRaster, dims>>

\* Variant of Slice: the whole array, whatever the end index.
Slice_NoLimit(a, end) == a

\* ndvi.slice(0, end)
Slice(a, end) == SubSeq(a, 1, Min(Len(a), end))

\* (sum / count).toFixed(4)
MeanText == toFixed(JsDiv(sum, Num(count, 1)), fractionDigits)

analyzeVegetationHealth(v) ==
  IF JsGeq(v, Num(6, 10)) THEN "Excellent"
  ELSE IF JsGeq(v, Num(4, 10)) THEN "Good"
  ELSE IF JsGeq(v, Num(2, 10)) THEN "Moderate"
  ELSE "Poor"

\* What the file-backed reducers return.
NdviResult ==
  [meanNdvi |-> MeanText,
   sample   |-> Slice(ndvi, sampleEnd),
   width    |-> dims[1],
   height   |-> dims[2]]

\* What calculateNDVIForLocation returns.
LocationResult ==
  [meanNdvi   |-> parseFloat(MeanText),
   sample     |-> Slice(ndvi, sampleEnd),
   width      |-> MathSqrt(Len(redRaster)),
   height     |-> MathSqrt(Len(redRaster)),
   pixelCount |-> count,
   vegetationHealth |-> analyzeVegetationHealth(parseFloat(MeanText))]

\* The loop ends and the reducer returns.  The route handler responds in the
\* same step; calculateNdvi returns to getNdviData.
LoopExit ==
  /\ pc = "loop"
  /\ ~(i < LoopBound)
  /\ result' = IF path = "simulated" THEN LocationResult ELSE NdviResult
  /\ IF path = "route"
       THEN /\ Send(200, NdviResult)
            /\ pc' = "done"
       ELSE /\ pc' = IF path = "service" THEN "returned" ELSE "done"
            /\ UNCHANGED <<response, sent>>
  /\ UNCHANGED <<path, query, redRaster, nirRaster, dims, i, ndvi, sum, count>>
  /\ UNCHANGED threw

months ==
  <<"Jan", "Feb", "Mar", "Apr", "May", "Jun",
    "Jul", "Aug", "Sep", "Oct", "Nov", "Dec">>

\* The values getMonth() can return.
MonthIndexes == 0..(Len(months) - 1)

\* (Math.random() * 0.3 + 0.4) or (Math.random() * 0.2 + 0.2), rounded to
\* three decimals: some number of the interval, represented by the interval.
RandomNdvi(monthIndex) ==
  IF monthIndex >= 5 /\ monthIndex <= 9
    THEN [random |-> <<Num(4, 10), Num(7, 10)>>]
    ELSE [random |-> <<Num(2, 10), Num(4, 10)>>]

\* Variant of generateChartData: the window of months ends one month early.
generateChartData_EndsEarly(currentNdvi, currentMonth) ==
  LET n == Len(months)
      monthIndex(j) == (currentMonth - (n - j) + n - 1) % n
  IN  [labels |-> [j \in 1..n |-> months[monthIndex(j) + 1]],
       data   |-> [j \in 1..n |->
                     IF j = n THEN parseFloat(currentNdvi)
                     ELSE RandomNdvi(monthIndex(j))],
       currentValue |-> parseFloat(currentNdvi)]

\* generateChartData when getMonth() is currentMonth: entry j (1-based) is
\* the loop's iteration i = 12 - j, the last entry is replaced by the
\* current value.  trend and averageValue, which depend on the random
\* values, are left out.
generateChartData(currentNdvi, currentMonth) ==
  LET n == Len(months)
      monthIndex(j) == (currentMonth - (n - j) + n) % n
  IN  [labels |-> [j \in 1..n |-> months[monthIndex(j) + 1]],
       data   |-> [j \in 1..n |->
                     IF j = n THEN parseFloat(currentNdvi)
                     ELSE RandomNdvi(monthIndex(j))],
       currentValue |-> parseFloat(currentNdvi)]

\* The enhanced response of getNdviData for the result ndviData and the
\* query q, built in the month currentMonth.  The timestamp is represented
\* by the local month of its instant.
enhancedResponse(ndviData, q, currentMonth) ==
  [meanNdvi |-> ndviData.meanNdvi,
   sample   |-> ndviData.sample,
   width    |-> ndviData.width,
   height   |-> ndviData.height,
   chartData |-> generateChartData(ndviData.meanNdvi, currentMonth),
   timestamp |-> [month |-> currentMonth],
   areaInfo |-> [isNull |-> ~q.hasArea],
   coordinates |->
     IF q.hasLat /\ q.hasLon
       THEN [isNull |-> FALSE, latitude |-> q.lat, longitude |-> q.lon]
       ELSE [isNull |-> TRUE, latitude |-> 0, longitude |-> 0]]

\* getNdviData after calculateNdvi has returned.
Respond(currentMonth) ==
  /\ pc = "returned"
  /\ path = "service"
  /\ Send(200, enhancedResponse(result, query, currentMonth))
  /\ pc' = "done"
  /\ UNCHANGED <<path, query, redRaster, nirRaster, dims, i, ndvi, sum,
                 count, result>>
  /\ UNCHANGED threw

\* ------------------------------------------------------------------------
\* Request parameters of the other handlers: a parameter is absent or a text.
\* val is the number the text denotes (NaN when it denotes none); no
\* handler reads it.
\* ------------------------------------------------------------------------
Absent == [present |-> FALSE, text |-> <<>>, val |-> NaN]

Param(t, v) == [present |-> TRUE, text |-> t, val |-> v]

\* The text of n / 10000 with four decimals, as a client writes it.
Decimal(n) == Param(toFixed(Num(n, 10000), 4), Num(n, 10000))

\* The text of n degrees with four decimals.
Degrees(n) == Param(toFixed(Num(n, 1), 4), Num(n, 1))

Garbage == Param(<<"a", "b", "c">>, NaN)

EmptyText == Param(<<>>, NaN)

\* The text "Infinity", which parseFloat reads as the number Infinity.
InfinityText ==
  Param(<<"I", "n", "f", "i", "n", "i", "t", "y">>, Infinity(1))

\* !p for a query parameter (undefined or the empty string)
Missing(p) == ~p.present \/ p.text = <<>>

\* parseFloat(p); parseFloat(undefined) is NaN
ParamFloat(p) == IF p.present THEN parseFloat(p.text) ELSE NaN

isNaN_Never(v) == FALSE

isNaN(v) == ToNumber(v).k = "nan"

\* ------------------------------------------------------------------------
\* suggestionEngine.js
\* ------------------------------------------------------------------------
\* analyzeVegetationHealth of suggestionEngine.js (five tiers)
engineAnalyzeVegetationHealth(v) ==
  LET tier == IF JsGeq(v, Num(6, 10)) THEN <<"Excellent", 90>>
              ELSE IF JsGeq(v, Num(4, 10)) THEN <<"Good", 75>>
              ELSE IF JsGeq(v, Num(2, 10)) THEN <<"Moderate", 50>>
              ELSE IF JsGeq(v, Num(1, 10)) THEN <<"Poor", 25>>
              ELSE <<"Critical", 10>>
  IN  [status |-> tier[1], percentage |-> tier[2], ndviValue |-> v]

Trend_Inclusive(percentageChange) ==
  IF JsGeq(percentageChange, Num(15, 1)) THEN "improving"
  ELSE IF JsGeq(percentageChange, Num(5, 1)) THEN "slightly_improving"
  ELSE IF JsGeq(percentageChange, Num(-5, 1)) THEN "stable"
  ELSE IF JsGeq(percentageChange, Num(-15, 1)) THEN "declining"
  ELSE "critical_decline"

\* The if-chain of compareWithHistorical.
Trend(percentageChange) ==
  IF JsGt(percentageChange, Num(15, 1)) THEN "improving"
  ELSE IF JsGt(percentageChange, Num(5, 1)) THEN "slightly_improving"
  ELSE IF JsGt(percentageChange, Num(-5, 1)) THEN "stable"
  ELSE IF JsGt(percentageChange, Num(-15, 1)) THEN "declining"
  ELSE "critical_decline"

compareWithHistorical(currentNdvi, historicalNdvi) ==
  IF Falsy(historicalNdvi)
    THEN [change |-> <<"No historical data available">>,
          percentageChange |-> Num(0, 1),
          trend |-> "neutral"]
    ELSE LET percentageChange ==
               JsMul(JsDiv(JsSub(currentNdvi, historicalNdvi),
                           historicalNdvi),
                     Num(100, 1))
         IN  [change |->
                (IF JsGt(percentageChange, Num(0, 1)) THEN <<"+">> ELSE <<>>)
                  \o toFixed(percentageChange, 1) \o <<"%">>,
              percentageChange |-> toFixed(percentageChange, 1),
              trend |-> Trend(percentageChange),
              currentValue |-> currentNdvi,
              historicalValue |-> historicalNdvi]

getCropRecommendations(v, season) ==
  IF JsGeq(v, Num(5, 10))
    THEN << [crop |-> "Rice", confidence |-> "High", expectedYield |-> "High"],
            [crop |-> "Wheat", confidence |-> "High", expectedYield |-> "High"] >>
  ELSE IF JsGeq(v, Num(3, 10))
    THEN << [crop |-> "Millet", confidence |-> "Medium",
             expectedYield |-> "Medium"],
            [crop |-> "Pulses", confidence |-> "Medium",
             expectedYield |-> "Medium"] >>
  ELSE << [crop |-> "Green Manure", confidence |-> "High",
           expectedYield |-> "N/A (Soil improvement)"],
          [crop |-> "Drought-resistant varieties", confidence |-> "Medium",
           expectedYield |-> "Low"] >>

getIrrigationAdvice(currentNdvi, historicalNdvi) ==
  IF JsGeq(currentNdvi, Num(6, 10)) THEN "Optimal moisture levels"
  ELSE IF JsGeq(currentNdvi, Num(4, 10)) THEN "Good moisture levels"
  ELSE IF JsGeq(currentNdvi, Num(2, 10)) THEN "Moderate moisture levels"
  ELSE "Low moisture levels"

predictYield(currentNdvi, historicalNdvi) ==
  LET tier == IF JsGeq(currentNdvi, Num(6, 10)) THEN <<"High", "High">>
              ELSE IF JsGeq(currentNdvi, Num(4, 10))
                THEN <<"Medium-High", "Medium">>
              ELSE IF JsGeq(currentNdvi, Num(2, 10))
                THEN <<"Medium", "Medium">>
              ELSE <<"Low", "High">>
  IN  [prediction |-> tier[1], confidence |-> tier[2],
       ndviBased |-> currentNdvi,
       recommendation |->
         IF JsLt(currentNdvi, Num(3, 10))
           THEN "Consider crop rotation or soil improvement"
           ELSE "Continue current practices"]

generateCropSuggestions(currentNdvi, historicalNdvi, coordinates, season) ==
  [vegetationHealth |-> engineAnalyzeVegetationHealth(currentNdvi),
   cropRecommendations |-> getCropRecommendations(currentNdvi, season),
   irrigationAdvice |-> getIrrigationAdvice(currentNdvi, historicalNdvi),
   yieldPrediction |-> predictYield(currentNdvi, historicalNdvi),
   historicalComparison |-> compareWithHistorical(currentNdvi, historicalNdvi)]

\* ------------------------------------------------------------------------
\* suggestionController.js
\* ------------------------------------------------------------------------
\* season || 'current'
OrCurrent(p) == IF Missing(p) THEN "current" ELSE "given"

Latitudes == {Absent, Degrees(28), Degrees(91)}

Longitudes == {Absent, Degrees(77), Degrees(-181)}

CurrentNdvis ==
  {Absent, EmptyText, Garbage, InfinityText} \cup
  {Decimal(n) : n \in {6234, 6000, 5750, 5250, 5000, 4750, 4250, 4000,
                       3000, 2000, 1000, 500}}

HistoricalNdvis ==
  {Absent, Garbage, InfinityText}
    \cup {Decimal(n) : n \in {5890, 5000, 0, -5000}}

Seasons == {Absent, Param(<<"k", "h", "a", "r", "i", "f">>, NaN)}

SuggestionQueries ==
  [latitude : Latitudes, longitude : Longitudes, currentNdvi : CurrentNdvis,
   historicalNdvi : HistoricalNdvis, season : Seasons, timeRange : {Absent}]

\* GET /api/suggestions
getCropSuggestions(q) ==
  /\ pc = "idle"
  /\ path' = "suggestions"
  /\ query' = q
  /\ LET latitude  == ParamFloat(q.latitude)
         longitude == ParamFloat(q.longitude)
     IN  IF ~validateCoordinates(latitude, longitude)
           THEN /\ Send(400, [error |-> "Invalid coordinates provided"])
                /\ UNCHANGED result
         ELSE IF Missing(q.currentNdvi) \/ isNaN(ParamFloat(q.currentNdvi))
           THEN /\ Send(400, [error |->
                  "Current NDVI value is required and must be a number"])
                /\ UNCHANGED result
         ELSE LET coordinates == [latitude |-> latitude,
                                  longitude |-> longitude]
                  currentNdviValue == ParamFloat(q.currentNdvi)
                  historicalNdviValue ==
                    IF Missing(q.historicalNdvi) THEN null
                    ELSE ParamFloat(q.historicalNdvi)
                  suggestions ==
                    generateCropSuggestions(currentNdviValue,
                                            historicalNdviValue, coordinates,
                                            OrCurrent(q.season))
              IN  /\ result' = suggestions
                  /\ Send(200,
                          [suggestions |-> suggestions,
                           metadata |-> [location  |-> coordinates,
                                         timeRange |-> OrCurrent(q.timeRange),
                                         season    |-> OrCurrent(q.season)]])
  /\ pc' = "done"
  /\ UNCHANGED <<redRaster, nirRaster, dims, i, ndvi, sum, count, threw>>

\* GET /api/suggestions/historical; the mock monthly data is represented by
\* its averageChange and trend.
getHistoricalComparison(q) ==
  /\ pc = "idle"
  /\ path' = "historical"
  /\ query' = q
  /\ LET latitude  == ParamFloat(q.latitude)
         longitude == ParamFloat(q.longitude)
     IN  IF ~validateCoordinates(latitude, longitude)
           THEN Send(400, [error |-> "Invalid coordinates provided"])
           ELSE Send(200,
                     [location |-> [latitude |-> latitude,
                                    longitude |-> longitude],
                      comparison |-> [averageChange |-> "+8.5%",
                                      trend |-> "improving"]])
  /\ pc' = "done"
  /\ UNCHANGED <<redRaster, nirRaster, dims, i, ndvi, sum, count, result,
                 threw>>

CoordinateQueries == [latitude : Latitudes, longitude : Longitudes]

\* ------------------------------------------------------------------------
\* weatherService.js and the weather handlers of locationController.js
\* ------------------------------------------------------------------------
\* The last day, counted from today, that a Date can hold; later dates are
\* invalid and toISOString throws RangeError on them.
maxDateOffset == 8

\* `days = 7` of getWeatherData
defaultDays == 7

\* The text of the integer n.
Integer(n) ==
  Param((IF n < 0 THEN <<"-">> ELSE <<>>) \o IntChars(Abs(n)), Num(n, 1))

DaysParams ==
  {Absent, Garbage, Integer(0), Integer(1), Integer(3), Integer(-3),
   Integer(maxDateOffset + 2)}

WeatherQueries ==
  [latitude : Latitudes, longitude : Longitudes, days : DaysParams]

\* The number of iterations of `for (let i = 0; i < days; i++)`.
Iterations(days) == IF days.k = "num" /\ days.n > 0 THEN days.n ELSE 0

\* getWeatherForecast: one entry per iteration, dated today + i (today is
\* day 0); the random readings of an entry are left out.  The result is
\* [threw |-> TRUE] when a date is invalid.
getWeatherForecast(latitude, longitude, days) ==
  IF \E j \in 0..(Iterations(days) - 1) : j > maxDateOffset
    THEN [threw |-> TRUE]
    ELSE [threw |-> FALSE,
          location |-> [latitude |-> latitude, longitude |-> longitude],
          forecast |-> [j \in 1..Iterations(days) |-> [date |-> j - 1]]]

\* GET /api/weather
getWeatherData(q) ==
  /\ pc = "idle"
  /\ path' = "weather"
  /\ query' = q
  /\ IF Missing(q.latitude) \/ Missing(q.longitude)
       THEN /\ Send(400, [error |-> "latitude and longitude are required"])
            /\ UNCHANGED threw
     ELSE IF ~validateCoordinates(ParamFloat(q.latitude),
                                  ParamFloat(q.longitude))
       THEN /\ Send(400, [error |-> "Invalid coordinates provided"])
            /\ UNCHANGED threw
     ELSE LET lat == ParamFloat(q.latitude)
              lon == ParamFloat(q.longitude)
              forecastDays == IF q.days.present THEN parseInt(q.days.text)
                              ELSE Num(defaultDays, 1)
              weatherData == getWeatherForecast(lat, lon, forecastDays)
          IN  IF weatherData.threw
                THEN /\ Send(500, [error |-> "Failed to fetch weather data",
                                   details |->
                                     "Failed to fetch weather forecast"])
                     /\ threw' = "forecast"
                ELSE /\ Send(200,
                             [location |-> weatherData.location,
                              forecast |-> weatherData.forecast,
                              metadata |->
                                [location |-> [latitude |-> lat,
                                               longitude |-> lon],
                                 forecastDays |-> forecastDays]])
                     /\ UNCHANGED threw
  /\ pc' = "done"
  /\ UNCHANGED <<redRaster, nirRaster, dims, i, ndvi, sum, count, result>>

\* Variant of getCurrentWeatherData: the first check lacks its `return`, so
\* a request without coordinates is answered by both checks.
getCurrentWeatherData_NoReturn(q) ==
  /\ pc = "idle"
  /\ path' = "weather_current"
  /\ query' = q
  /\ IF Missing(q.latitude) \/ Missing(q.longitude)
       THEN /\ response' = [status |-> 400,
                            body |-> [error |-> "Invalid coordinates provided"]]
            /\ sent' = sent + 2
     ELSE IF ~validateCoordinates(ParamFloat(q.latitude),
                                  ParamFloat(q.longitude))
       THEN Send(400, [error |-> "Invalid coordinates provided"])
     ELSE LET lat == ParamFloat(q.latitude)
              lon == ParamFloat(q.longitude)
          IN  Send(200,
                   [location |-> [latitude |-> lat, longitude |-> lon],
                    metadata |-> [location |-> [latitude |-> lat,
                                                longitude |-> lon]]])
  /\ pc' = "done"
  /\ UNCHANGED <<redRaster, nirRaster, dims, i, ndvi, sum, count, result,
                 threw>>

\* GET /api/weather/current; the random readings are left out.
getCurrentWeatherData(q) ==
  /\ pc = "idle"
  /\ path' = "weather_current"
  /\ query' = q
  /\ IF Missing(q.latitude) \/ Missing(q.longitude)
       THEN Send(400, [error |-> "latitude and longitude are required"])
     ELSE IF ~validateCoordinates(ParamFloat(q.latitude),
                                  ParamFloat(q.longitude))
       THEN Send(400, [error |-> "Invalid coordinates provided"])
     ELSE LET lat == ParamFloat(q.latitude)
              lon == ParamFloat(q.longitude)
          IN  Send(200,
                   [location |-> [latitude |-> lat, longitude |-> lon],
                    metadata |-> [location |-> [latitude |-> lat,
                                                longitude |-> lon]]])
  /\ pc' = "done"
  /\ UNCHANGED <<redRaster, nirRaster, dims, i, ndvi, sum, count, result,
                 threw>>

\* ------------------------------------------------------------------------
\* POST /api/location
\* ------------------------------------------------------------------------
\* `radius = 5` of getLocationOptions
defaultRadius == 5

\* String(v) of an integer number or undefined
NumberToString(v) ==
  IF v.k = "num"
    THEN (IF v.n < 0 THEN <<"-">> ELSE <<>>) \o IntChars(Abs(v.n))
    ELSE <<"u", "n", "d", "e", "f", "i", "n", "e", "d">>

\* parseFloat(v) of a JSON value
ValueFloat(v) == parseFloat(NumberToString(v))

LocationBodies ==
  [latitude  : {undefined, Num(0, 1), Num(28, 1), Num(91, 1)},
   longitude : {undefined, Num(0, 1), Num(77, 1), Num(-181, 1)},
   radius    : {undefined, Num(2, 1)}]

\* The newer getLocationOptions; the area options, landmarks and bounding
\* box are left out of the response.
getLocationOptions(b) ==
  /\ pc = "idle"
  /\ path' = "location"
  /\ query' = b
  /\ LET radius == IF b.radius.k = "undefined" THEN Num(defaultRadius, 1)
                   ELSE b.radius
     IN  IF Falsy(b.latitude) \/ Falsy(b.longitude)
           THEN Send(400, [error |-> "latitude and longitude required"])
         ELSE IF ~validateCoordinates(ValueFloat(b.latitude),
                                      ValueFloat(b.longitude))
           THEN Send(400, [error |-> "Invalid coordinates provided"])
         ELSE LET lat == ValueFloat(b.latitude)
                  lon == ValueFloat(b.longitude)
              IN  Send(200,
                       [location |->
                          [latitude |-> lat, longitude |-> lon,
                           formatted |-> toFixed(lat, 6) \o <<",", " ">>
                                           \o toFixed(lon, 6)],
                        radius_km |-> ValueFloat(radius)])
  /\ pc' = "done"
  /\ UNCHANGED <<redRaster, nirRaster, dims, i, ndvi, sum, count, result,
                 threw>>

\* ------------------------------------------------------------------------
\* dynamicAreaService
\* ------------------------------------------------------------------------
\* Math.floor of a finite number.
MathFloor(x) == x.n \div x.d

\* a % b of JavaScript for integers a and b > 0: the result has the sign of
\* the dividend.
JsRem(a, b) == IF a >= 0 THEN a % b ELSE -((-a) % b)

soilTypes == <<"Alluvial", "Black", "Red", "Laterite", "Mountain">>

\* array[index] with the 0-based index of the source: undefined when the
\* array has no such element (-0 names element 0).
ElementAt(array, index) ==
  IF index + 1 \in DOMAIN array THEN array[index + 1] ELSE "undefined"

getSoilType(latitude, longitude) ==
  LET index == JsRem(MathFloor(JsMul(JsAdd(latitude, longitude),
                                     Num(1000, 1))),
                     Len(soilTypes))
  IN  ElementAt(soilTypes, index)

\* Coordinates in thousandths of a degree.
Thousandths(n) == Num(n, 1000)

AreaLatitudes == {Thousandths(n) : n \in {-90000, -1, 0, 28614, 90000}}

AreaLongitudes == {Thousandths(n) : n \in {-180000, -2, 0, 77209, 180000}}

\* fetchRealAreasForLocation: of the result, the soil types of the three
\* agricultural fields and of the land use data.
fetchRealAreasForLocation(latitude, longitude) ==
  /\ pc = "idle"
  /\ path' = "areas"
  /\ query' = [latitude |-> latitude, longitude |-> longitude]
  /\ result' =
       [agriculturalFields |->
          [f \in 1..3 |-> [soilType |-> getSoilType(latitude, longitude)]],
        landUseData |-> [soilType |-> getSoilType(latitude, longitude)]]
  /\ pc' = "done"
  /\ UNCHANGED <<redRaster, nirRaster, dims, i, ndvi, sum, count, response,
                 sent, threw>>

Next ==
  \/ \E q \in Queries : getNdviData(q)
  \/ routeNdvi
  \/ AwaitRejects
  \/ AwaitResolves
  \/ pc = "read_red" /\ \E raster \in Rasters :
       \E wh \in Dimensions(Len(raster)) : ReadRedRaster(raster, wh)
  \/ pc = "read_nir" /\ \E raster \in Rasters : ReadNirRaster(raster)
  \/ pc = "idle" /\ \E red \in Rasters, nir \in Rasters :
       calculateNDVIForLocation(red, nir)
  \/ pc = "idle" /\ \E latitude \in SimLatitudes :
       \E draws \in [1..bandLength -> RandomDraws] :
         fetchSatelliteDataForLocation(latitude, draws)
  \/ LoopStep
  \/ LoopExit
  \/ pc = "returned" /\ \E currentMonth \in MonthIndexes : Respond(currentMonth)
  \/ pc = "idle" /\ \E q \in SuggestionQueries : getCropSuggestions(q)
  \/ pc = "idle" /\ \E q \in CoordinateQueries : getHistoricalComparison(q)
  \/ pc = "idle" /\ \E q \in WeatherQueries : getWeatherData(q)
  \/ pc = "idle" /\ \E q \in CoordinateQueries : getCurrentWeatherData(q)
  \/ pc = "idle" /\ \E b \in LocationBodies : getLocationOptions(b)
  \/ pc = "idle" /\ \E latitude \in AreaLatitudes, longitude \in AreaLongitudes :
       fetchRealAreasForLocation(latitude, longitude)

Spec == Init /\ [][Next]_vars

\* ------------------------------------------------------------------------
\* Concurrent GET /api/ndvi requests.  Every variable holds one value per
\* request; a request's handler runs from one await to the next without
\* interruption, and the requests interleave at the awaits.
\* ------------------------------------------------------------------------
Requests == {1, 2}

\* The locals of calculateNdvi live in the activation of the call.
Scope_Shared(r) == 1

Scope(r) == r

\* The queries of the concurrent requests; the older route handler reads
\* no query.
QueriesOf(handler) ==
  IF handler = "route" THEN {NoQuery}
  ELSE {NoQuery, Query(TRUE, 28, TRUE, 77, TRUE),
        Query(TRUE, 91, TRUE, 77, FALSE)}

InputsOf(handler) ==
  [handler  : {handler},
   q        : QueriesOf(handler),
   red      : {Band(<<100, 300>>, L) : L \in {0, 2, MaxLen}},
   nir      : {Band(<<300, -100>>, 2), Band(<<300, 100>>, MaxLen)},
   rejectAt : {"none", "read_red"},
   month    : {0}]

\* What a request meets: the handler it is routed to, its query, the
\* contents of the stored rasters at the time it reads them, the awaited
\* stage that rejects (if any) and the month it is answered in (January).
Inputs ==
  UNION {InputsOf(handler) : handler \in {"service", "route"}}

\* The red raster is read from the fixed redUrl, whatever the query.
RedSource_Located(in) ==
  IF in.q.hasLat THEN SubSeq(in.red, 1, Min(Len(in.red), 1)) ELSE in.red

RedSource(in) == in.red

\* getWidth() and getHeight() of the red image.
ImageDims(raster) == <<1, Len(raster)>>

InitConc ==
  /\ pc = [r \in Requests |-> "idle"]
  /\ path = [r \in Requests |-> "none"]
  /\ query \in [Requests -> Inputs]
  /\ redRaster = [c \in Requests |-> <<>>]
  /\ nirRaster = [c \in Requests |-> <<>>]
  /\ dims = [c \in Requests |-> NoDims]
  /\ i = [c \in Requests |-> 0]
  /\ ndvi = [c \in Requests |-> <<>>]
  /\ sum = [c \in Requests |-> Num(0, 1)]
  /\ count = [c \in Requests |-> 0]
  /\ result = [r \in Requests |-> NoResult]
  /\ response = [r \in Requests |-> NoResponse]
  /\ sent = [r \in Requests |-> 0]
  /\ threw = [r \in Requests |-> "none"]

\* res.status(s).json(b) on the response of request r
SendAt(r, s, b) ==
  /\ response' = [response EXCEPT ![r] = [status |-> s, body |-> b]]
  /\ sent' = [sent EXCEPT ![r] = @ + 1]

\* getNdviData, or the older route handler, up to its first await.
getNdviDataAt(r) ==
  /\ pc[r] = "idle"
  /\ path' = [path EXCEPT ![r] = query[r].handler]
  /\ LET q == query[r].q
     IN  IF query[r].handler = "service" /\ q.hasLat /\ q.hasLon
            /\ ~validateCoordinates(Num(q.lat, 1), Num(q.lon, 1))
           THEN /\ SendAt(r, 400, [error |-> "Invalid coordinates provided"])
                /\ pc' = [pc EXCEPT ![r] = "done"]
           ELSE /\ pc' = [pc EXCEPT ![r] = "download_red"]
                /\ UNCHANGED <<response, sent>>
  /\ UNCHANGED <<query, redRaster, nirRaster, dims, i, ndvi, sum, count,
                 result, threw>>

\* The body the catch block of a handler sends.
CatchBody(handler) ==
  IF handler = "service"
    THEN [error |-> "NDVI computation failed", details |-> "err.message"]
    ELSE [error |-> "NDVI computation failed"]

\* An awaited step of request r rejects.
AwaitRejectsAt(r) ==
  /\ IsStage(pc[r])
  /\ query[r].rejectAt = pc[r]
  /\ pc' = [pc EXCEPT ![r] = "done"]
  /\ threw' = [threw EXCEPT ![r] = pc[r]]
  /\ SendAt(r, 500, CatchBody(query[r].handler))
  /\ UNCHANGED <<path, query, redRaster, nirRaster, dims, i, ndvi, sum,
                 count, result>>

\* A download, fromArrayBuffer or getImage of request r resolves.
AwaitResolvesAt(r) ==
  /\ IsStage(pc[r])
  /\ pc[r] \notin {"read_red", "read_nir"}
  /\ query[r].rejectAt # pc[r]
  /\ pc' = [pc EXCEPT ![r] = StageAfter(pc[r])]
  /\ UNCHANGED <<path, query, redRaster, nirRaster, dims, i, ndvi, sum,
                 count, result, response, sent, threw>>

\* (await redImage.readRasters())[0] of request r
ReadRedRasterAt(r) ==
  /\ pc[r] = "read_red"
  /\ query[r].rejectAt # pc[r]
  /\ redRaster' = [redRaster EXCEPT ![Scope(r)] = RedSource(query[r])]
  /\ dims' = [dims EXCEPT ![Scope(r)] = ImageDims(RedSource(query[r]))]
  /\ pc' = [pc EXCEPT ![r] = StageAfter(pc[r])]
  /\ UNCHANGED <<path, query, nirRaster, i, ndvi, sum, count, result,
                 response, sent, threw>>

\* The locals ndvi, sum and count as the loop leaves them.
NoPixels == [ndvi |-> <<>>, sum |-> Num(0, 1), count |-> 0]

\* The loop of calculateNdvi from index j on, over the rasters red and nir.
RECURSIVE RunLoop(_, _, _, _)
RunLoop(red, nir, j, acc) ==
  IF ~(j < Min(Len(red), maxPixels)) THEN acc
  ELSE LET r == ReadPixel(red, j)
           n == ReadPixel(nir, j)
       IN  RunLoop(red, nir, j + 1,
             IF NotStrictEqualZero(JsAdd(n, r))
               THEN LET val == NdviValue(n, r)
                    IN  [ndvi  |-> Append(acc.ndvi, val),
                         sum   |-> JsAdd(acc.sum, val),
                         count |-> acc.count + 1]
               ELSE [acc EXCEPT !.ndvi = Append(@, Num(0, 1))])

\* The object calculateNdvi returns.
ReturnValue(acc, wh) ==
  [meanNdvi |-> toFixed(JsDiv(acc.sum, Num(acc.count, 1)), fractionDigits),
   sample   |-> Slice(acc.ndvi, sampleEnd),
   width    |-> wh[1],
   height   |-> wh[2]]

\* (await nirImage.readRasters())[0] of request r resolves and the reducer
\* runs to its end: the locals are initialised, the loop runs over the
\* rasters the activation holds, the result is built.  The route handler
\* responds in the same step; calculateNdvi returns to getNdviData.
ReadNirRasterAt(r) ==
  /\ pc[r] = "read_nir"
  /\ query[r].rejectAt # pc[r]
  /\ LET c   == Scope(r)
         acc == RunLoop(redRaster[c], query[r].nir, 0, NoPixels)
     IN  /\ nirRaster' = [nirRaster EXCEPT ![c] = query[r].nir]
         /\ i' = [i EXCEPT ![c] = Min(Len(redRaster[c]), maxPixels)]
         /\ ndvi' = [ndvi EXCEPT ![c] = acc.ndvi]
         /\ sum' = [sum EXCEPT ![c] = acc.sum]
         /\ count' = [count EXCEPT ![c] = acc.count]
         /\ result' = [result EXCEPT ![r] = ReturnValue(acc, dims[c])]
         /\ IF query[r].handler = "route"
              THEN /\ SendAt(r, 200, ReturnValue(acc, dims[c]))
                   /\ pc' = [pc EXCEPT ![r] = "done"]
              ELSE /\ pc' = [pc EXCEPT ![r] = "returned"]
                   /\ UNCHANGED <<response, sent>>
  /\ UNCHANGED <<path, query, redRaster, dims, threw>>

\* getNdviData of request r after its `await calculateNdvi()`.
RespondAt(r) ==
  /\ pc[r] = "returned"
  /\ SendAt(r, 200, enhancedResponse(result[r], query[r].q, query[r].month))
  /\ pc' = [pc EXCEPT ![r] = "done"]
  /\ UNCHANGED <<path, query, redRaster, nirRaster, dims, i, ndvi, sum,
                 count, result, threw>>

NextConc ==
  \E r \in Requests :
    \/ getNdviDataAt(r)
    \/ AwaitRejectsAt(r)
    \/ AwaitResolvesAt(r)
    \/ ReadRedRasterAt(r)
    \/ ReadNirRasterAt(r)
    \/ RespondAt(r)

SpecConc == InitConc /\ [][NextConc]_vars

\* The response request r gets when no other request is in flight.
AloneResponse(in) ==
  IF in.handler = "service" /\ in.q.hasLat /\ in.q.hasLon
       /\ ~validateCoordinates(Num(in.q.lat, 1), Num(in.q.lon, 1))
    THEN [status |-> 400, body |-> [error |-> "Invalid coordinates provided"]]
  ELSE IF in.rejectAt # "none"
    THEN [status |-> 500, body |-> CatchBody(in.handler)]
  ELSE LET alone == ReturnValue(RunLoop(RedSource(in), in.nir, 0, NoPixels),
                                ImageDims(RedSource(in)))
       IN  [status |-> 200,
            body |-> IF in.handler = "route" THEN alone
                     ELSE enhancedResponse(alone, in.q, in.month)]

\* C13: of GET /api/ndvi requests that interleave at the awaits, each gets
\* the response it gets when it runs alone, and sends it once.
C13_RequestsIndependent ==
  \A r \in Requests :
    /\ pc[r] = "done" => (response[r] = AloneResponse(query[r]) /\ sent[r] = 1)
    /\ pc[r] # "done" => sent[r] = 0

\* Request 1 has been answered while request 2, which read another red
\* raster, awaits its NIR raster.
C13_Witness ==
  /\ pc[1] = "done" /\ response[1].status = 200
  /\ pc[2] = "read_nir"
  /\ redRaster[Scope(2)] # redRaster[Scope(1)]
  /\ Len(redRaster[Scope(1)]) > 0

RECURSIVE routeLoop_Uncapped(_, _, _, _)
routeLoop_Uncapped(red, nir, j, acc) ==
  IF ~(j < Len(red)) THEN acc
  ELSE LET r == ReadPixel(red, j)
           n == ReadPixel(nir, j)
       IN  routeLoop_Uncapped(red, nir, j + 1,
             IF NotStrictEqualZero(JsAdd(n, r))
               THEN LET val == NdviValue(n, r)
                    IN  [ndvi  |-> Append(acc.ndvi, val),
                         sum   |-> JsAdd(acc.sum, val),
                         count |-> acc.count + 1]
               ELSE [acc EXCEPT !.ndvi = Append(@, Num(0, 1))])

\* The loop of the route handler from index j on.
RECURSIVE routeLoop(_, _, _, _)
routeLoop(red, nir, j, acc) ==
  IF ~(j < Min(Len(red), maxPixels)) THEN acc
  ELSE LET r == ReadPixel(red, j)
           n == ReadPixel(nir, j)
       IN  routeLoop(red, nir, j + 1,
             IF NotStrictEqualZero(JsAdd(n, r))
               THEN LET val == NdviValue(n, r)
                    IN  [ndvi  |-> Append(acc.ndvi, val),
                         sum   |-> JsAdd(acc.sum, val),
                         count |-> acc.count + 1]
               ELSE [acc EXCEPT !.ndvi = Append(@, Num(0, 1))])

\* The object the route handler sends.
routeBody(acc, wh) ==
  [meanNdvi |-> toFixed(JsDiv(acc.sum, Num(acc.count, 1)), fractionDigits),
   sample   |-> Slice(acc.ndvi, sampleEnd),
   width    |-> wh[1],
   height   |-> wh[2]]

\* Both reducers are handed the same pair of rasters and the same image.
InitReducers ==
  /\ pc = "idle"
  /\ path = "none"
  /\ query = NoQuery
  /\ redRaster \in Rasters
  /\ nirRaster \in Rasters
  /\ dims \in Dimensions(Len(redRaster))
  /\ i = 0
  /\ ndvi = <<>>
  /\ sum = Num(0, 1)
  /\ count = 0
  /\ result = NoResult
  /\ response = NoResponse
  /\ sent = 0
  /\ threw = "none"

\* calculateNdvi from its line 19 on.
ServiceReduces ==
  /\ result = NoResult
  /\ result' = ReturnValue(RunLoop(redRaster, nirRaster, 0, NoPixels), dims)
  /\ UNCHANGED <<pc, path, query, redRaster, nirRaster, dims, i, ndvi, sum,
                 count, response, sent, threw>>

\* The route handler from its line 27 on.
RouteReduces ==
  /\ response = NoResponse
  /\ Send(200, routeBody(routeLoop(redRaster, nirRaster, 0, NoPixels), dims))
  /\ UNCHANGED <<pc, path, query, redRaster, nirRaster, dims, i, ndvi, sum,
                 count, result, threw>>

NextReducers == ServiceReduces \/ RouteReduces

SpecReducers == InitReducers /\ [][NextReducers]_vars

\* ------------------------------------------------------------------------
\* Vocabulary of the properties.
\* ------------------------------------------------------------------------
FileBacked == path \in {"service", "route"}

\* The request runs one of the three reducers.
ReducerPath == path \in {"service", "route", "simulated"}

\* The reducer has run its loop to the end and returned a result.
Reduced == pc \in {"returned", "done"} /\ "meanNdvi" \in DOMAIN result

\* Pixel j (1-based) exists in both bands.
Paired(j) == j \in DOMAIN redRaster /\ j \in DOMAIN nirRaster

\* Pixel j has the denominator nir + red equal to zero.
ZeroDenominator(j) == Paired(j) /\ nirRaster[j] + redRaster[j] = 0

\* The NDVI of pixel j by the formula, NaN where a band has no value at j.
PixelNdvi(j) ==
  IF ~Paired(j) THEN NaN
  ELSE Num(nirRaster[j] - redRaster[j], nirRaster[j] + redRaster[j])

\* The sum of PixelNdvi over the pixels 1..n with a nonzero denominator.
RECURSIVE NonzeroSum(_)
NonzeroSum(n) ==
  IF n = 0 THEN Num(0, 1)
  ELSE IF ZeroDenominator(n) THEN NonzeroSum(n - 1)
  ELSE JsAdd(NonzeroSum(n - 1), PixelNdvi(n))

NonzeroCount(n) == Cardinality({j \in 1..n : ~ZeroDenominator(j)})

\* The mean the result carries, as a number.
MeanNumber ==
  IF path = "simulated" THEN result.meanNdvi ELSE parseFloat(result.meanNdvi)

\* m is x rounded to fractionDigits decimals.
RoundsTo(m, x) ==
  /\ m.k = "num" /\ x.k = "num"
  /\ 2 * Pow10(fractionDigits) * Abs(m.n * x.d - x.n * m.d) <= m.d * x.d
  /\ (m.n * Pow10(fractionDigits)) % m.d = 0

InUnitRange(v) == v.k = "num" /\ -v.d <= v.n /\ v.n <= v.d

NaNText == <<"N", "a", "N">>

\* ------------------------------------------------------------------------
\* C1: for bands both shorter than maxPixels the reducer processes exactly
\* min(len(red), len(nir)) pixels, each from a red and a nir value that
\* both exist.
\* ------------------------------------------------------------------------
C1_ProcessesShorterLength ==
  (Reduced /\ Len(redRaster) < maxPixels /\ Len(nirRaster) < maxPixels)
    => /\ Len(ndvi) = Min(Len(redRaster), Len(nirRaster))
       /\ \A j \in 1..Len(ndvi) : Paired(j)

\* ------------------------------------------------------------------------
\* C2: when the reducer ends with count = 0 it signals an error: it returns
\* no result (so none whose meanNdvi is the text "NaN").
\* ------------------------------------------------------------------------
C2_NoValidPixelsSignalled ==
  (pc \in {"returned", "done"} /\ ReducerPath /\ response.status # 400
     /\ count = 0)
    => /\ threw # "none"
       /\ ~Reduced
       /\ response.status # 200

\* ------------------------------------------------------------------------
\* C3: a 200 response of GET /api/ndvi carries a numeric meanNdvi, never
\* "NaN".
\* ------------------------------------------------------------------------
C3_OkResponseHasNumericMean ==
  (FileBacked /\ response.status = 200)
    => /\ response.body.meanNdvi # NaNText
       /\ parseFloat(response.body.meanNdvi).k = "num"

\* ------------------------------------------------------------------------
\* C4: a pixel with nir + red = 0 is recorded as 0 and enters neither sum
\* nor count; the mean is the sum of the NDVI values of the pixels with a
\* nonzero denominator divided by their number (to 4 decimals).
\* ------------------------------------------------------------------------
C4_ZeroDenominatorExcluded ==
  (pc \in {"loop", "returned", "done"} /\ Len(ndvi) = i)
    => /\ \A j \in 1..i : ZeroDenominator(j) => ndvi[j] = Num(0, 1)
       /\ count = NonzeroCount(i)
       /\ sum = NonzeroSum(i)
       /\ (Reduced /\ NonzeroCount(i) > 0 /\ NonzeroSum(i).k = "num")
            => RoundsTo(MeanNumber,
                        JsDiv(NonzeroSum(i), Num(NonzeroCount(i), 1)))

\* red = [0, 100], nir = [0, 300]: pixel 0 is recorded as 0 and the mean is
\* the NDVI of pixel 1 alone.
C4_Witness ==
  /\ Reduced /\ FileBacked
  /\ redRaster = <<0, 100>> /\ nirRaster = <<0, 300>>
  /\ ndvi = <<Num(0, 1), Num(1, 2)>>
  /\ count = 1
  /\ result.meanNdvi = <<"0", ".", "5", "0", "0", "0">>

\* ------------------------------------------------------------------------
\* C5: the sample has length min(n, sample limit), n the number of processed
\* pixels, and is the prefix of the per-pixel output in scan order.
\* ------------------------------------------------------------------------
C5_SampleIsBoundedPrefix ==
  Reduced
    => /\ Len(result.sample) = Min(Len(ndvi), sampleEnd)
       /\ \A j \in 1..Len(result.sample) : result.sample[j] = ndvi[j]
       /\ response.status = 200 => response.body.sample = result.sample

\* A result whose per-pixel output is longer than its sample.
C5_Witness ==
  Reduced /\ Len(ndvi) > sampleEnd /\ Len(result.sample) = sampleEnd

\* ------------------------------------------------------------------------
\* C6: the file-backed reducers never process more than maxPixels pixels;
\* with both bands longer than maxPixels they process exactly maxPixels, and
\* output, sum, count and mean are those of the first maxPixels pixels alone.
\* ------------------------------------------------------------------------
C6_CapEnforced ==
  FileBacked
    => /\ i <= maxPixels /\ Len(ndvi) <= maxPixels
       /\ Reduced
            => LET n == Min(Len(redRaster), maxPixels)
               IN  /\ (Len(redRaster) > maxPixels /\ Len(nirRaster) > maxPixels)
                        => Len(ndvi) = maxPixels
                   /\ Len(ndvi) = n
                   /\ \A j \in 1..n :
                        ndvi[j] = IF ZeroDenominator(j) THEN Num(0, 1)
                                  ELSE PixelNdvi(j)
                   /\ sum = NonzeroSum(n)
                   /\ count = NonzeroCount(n)
                   /\ parseFloat(result.meanNdvi)
                        = parseFloat(toFixed(JsDiv(NonzeroSum(n),
                                                   Num(NonzeroCount(n), 1)),
                                             fractionDigits))

\* Both bands are longer than the cap and the reduction stopped at the cap.
C6_Witness ==
  /\ Reduced /\ FileBacked
  /\ Len(redRaster) > maxPixels /\ Len(nirRaster) > maxPixels
  /\ Len(ndvi) = maxPixels
  /\ response.status = 200

\* ------------------------------------------------------------------------
\* C7: whatever the two band lengths, the reduction raises no error: every
\* step taken inside the loop stays in the loop or returns a result.
\* ------------------------------------------------------------------------
C7_NoErrorOnLengthMismatch ==
  [][pc = "loop"
       => /\ threw' = "none"
          /\ response'.status \in {0, 200}
          /\ pc' = "loop" \/ "meanNdvi" \in DOMAIN result']_vars

\* Reductions have returned for a red band longer than the nir band.
C7_Witness ==
  /\ Reduced /\ FileBacked
  /\ Len(redRaster) > Len(nirRaster)
  /\ Len(redRaster) <= maxPixels
  /\ threw = "none"

\* ------------------------------------------------------------------------
\* C8: for a processed pixel with non-negative red and nir and nir + red # 0
\* the per-pixel NDVI lies in [-1, 1]; so do the sample elements of such
\* pixels, and the mean when every processed pixel has non-negative red and
\* nir and at least one is valid.
\* ------------------------------------------------------------------------
NonNegative(j) == Paired(j) /\ redRaster[j] >= 0 /\ nirRaster[j] >= 0

C8_NdviInUnitRange ==
  (pc \in {"loop", "returned", "done"} /\ Len(ndvi) = i)
    => /\ \A j \in 1..i :
            (NonNegative(j) /\ ~ZeroDenominator(j)) => InUnitRange(ndvi[j])
       /\ Reduced
            => /\ \A j \in 1..Len(result.sample) :
                    NonNegative(j) => InUnitRange(result.sample[j])
               /\ ((\A j \in 1..i : NonNegative(j)) /\ count > 0)
                    => InUnitRange(MeanNumber)

\* A reduction over non-negative pixels has returned values on both ends of
\* the range.
C8_Witness ==
  /\ Reduced
  /\ \A j \in 1..i : NonNegative(j)
  /\ \E j \in 1..i : ndvi[j] = Num(1, 1)
  /\ \E j \in 1..i : ndvi[j] = Num(-1, 1)
  /\ count > 0

\* ------------------------------------------------------------------------
\* C9: when at least one pixel is valid, meanNdvi is sum / count as text
\* with exactly 4 decimal places.
\* ------------------------------------------------------------------------
\* s reads [-]d+.dddd
IsFixedText(s) ==
  LET body == IF Len(s) > 0 /\ s[1] = "-" THEN Tail(s) ELSE s
      p    == Len(body) - fractionDigits
  IN  /\ p >= 2
      /\ body[p] = "."
      /\ \A q \in 1..Len(body) : q # p => IsDigit(body[q])

C9_MeanHasFourDecimals ==
  (Reduced /\ FileBacked
     /\ \E j \in 1..Len(ndvi) : Paired(j) /\ ~ZeroDenominator(j))
    => /\ IsFixedText(result.meanNdvi)
       /\ RoundsTo(parseFloat(result.meanNdvi), JsDiv(sum, Num(count, 1)))

\* ------------------------------------------------------------------------
\* C10: when a download, a decode or the reduction fails, GET /api/ndvi
\* answers 500 with an `error` field and no field of the NdviResult; a 200
\* response carries the result of a reduction that ran to its end.
\* ------------------------------------------------------------------------
ResultFields == {"meanNdvi", "sample", "width", "height"}

C10_FailureGives500 ==
  /\ (FileBacked /\ threw # "none")
       => /\ pc = "done"
          /\ response.status = 500
          /\ "error" \in DOMAIN response.body
          /\ DOMAIN response.body \cap ResultFields = {}
          /\ sent = 1
  /\ (FileBacked /\ response.status = 200)
       => /\ threw = "none"
          /\ i = LoopBound /\ Len(ndvi) = i
          /\ \A f \in ResultFields :
               f \in DOMAIN response.body /\ response.body[f] = result[f]
          /\ "error" \notin DOMAIN response.body

\* A download or decode step has failed after at least one succeeded.
C10_Witness ==
  /\ FileBacked
  /\ threw \in {"download_nir", "parse_red", "image_nir", "read_nir"}
  /\ response.status = 500

\* ------------------------------------------------------------------------
\* C11: a band of length zero is rejected with an error before any
\* reduction: the reducer returns no result for such input.
\* ------------------------------------------------------------------------
C11_EmptyBandRejected ==
  Reduced => (Len(redRaster) > 0 /\ Len(nirRaster) > 0)

\* ------------------------------------------------------------------------
\* C12: in the simulated path width = height = ceil(sqrt(L)) for a band of
\* length L, both integers with width * height >= L.
\* ------------------------------------------------------------------------
CeilSqrt(L) == CHOOSE r \in 0..L : r * r >= L /\ (r = 0 \/ (r - 1) * (r - 1) < L)

C12_SimulatedDimensions ==
  (Reduced /\ path = "simulated")
    => /\ result.width = Num(CeilSqrt(Len(redRaster)), 1)
       /\ result.height = result.width
       /\ result.width.n * result.height.n >= Len(redRaster)

\* ------------------------------------------------------------------------
\* C17: in GET /api/ndvi a supplied pair of coordinates that fails
\* validation is answered 400 before calculateNdvi starts (no download, no
\* raster, no loop); without coordinates the computation runs and the 200
\* response has coordinates == null.
\* ------------------------------------------------------------------------
Supplied == query.hasLat /\ query.hasLon

C17_ValidationPrecedesComputation ==
  path = "service"
    => /\ (Supplied /\ ~validateCoordinates(Num(query.lat, 1),
                                            Num(query.lon, 1)))
            => /\ pc = "done"
               /\ response.status = 400 /\ sent = 1
               /\ redRaster = <<>> /\ nirRaster = <<>>
               /\ i = 0 /\ ndvi = <<>> /\ result = NoResult
               /\ threw = "none"
       /\ ~Supplied
            => /\ response.status # 400
               /\ pc # "idle"
               /\ response.status = 200 => response.body.coordinates.isNull

\* Invalid coordinates were supplied and answered 400 with nothing started.
C17_Witness ==
  /\ path = "service" /\ Supplied /\ query.lat = 91
  /\ response.status = 400
  /\ pc = "done" /\ redRaster = <<>>


\* ------------------------------------------------------------------------
\* GET /api/suggestions
\* ------------------------------------------------------------------------
\* The number v lies in [-bound, bound].
WithinRange(v, bound) ==
  v.k = "num" /\ -bound * v.d <= v.n /\ v.n <= bound * v.d

\* The request lacks a required parameter, or has coordinates out of range,
\* or a currentNdvi that is no number.
SuggestionRequestInvalid ==
  \/ Missing(query.latitude) \/ Missing(query.longitude)
  \/ Missing(query.currentNdvi)
  \/ ~WithinRange(query.latitude.val, 90)
  \/ ~WithinRange(query.longitude.val, 180)
  \/ query.currentNdvi.val.k = "nan"

\* C16: GET /api/suggestions answers 400 without calling
\* generateCropSuggestions when latitude, longitude or currentNdvi is missing,
\* the coordinates are out of range or currentNdvi is no number; every other
\* request is answered 200 with the suggestions and the metadata.
C16_SuggestionsValidated ==
  (path = "suggestions" /\ pc = "done")
    => IF SuggestionRequestInvalid
         THEN /\ response.status = 400
              /\ result = NoResult
              /\ DOMAIN response.body = {"error"}
         ELSE /\ response.status = 200
              /\ result # NoResult
              /\ DOMAIN response.body = {"suggestions", "metadata"}
              /\ response.body.suggestions = result

C16_Witness ==
  /\ path = "suggestions" /\ pc = "done"
  /\ WithinRange(query.latitude.val, 90)
  /\ WithinRange(query.longitude.val, 180)
  /\ query.currentNdvi = Garbage
  /\ response.status = 400

\* C18: a currentNdvi of 0.6234 is reported as status "Good", percentage 75,
\* ndviValue 0.6234.
C18_DocumentedHealthExample ==
  (path = "suggestions" /\ response.status = 200
     /\ query.currentNdvi.val = Num(6234, 10000))
    => LET health == response.body.suggestions.vegetationHealth
       IN  /\ health.status = "Good"
           /\ health.percentage = 75
           /\ health.ndviValue = Num(6234, 10000)

\* The suggestions were computed from a finite current NDVI against a
\* finite nonzero historical NDVI.
Compared ==
  /\ path = "suggestions" /\ response.status = 200
  /\ query.currentNdvi.val.k = "num"
  /\ query.historicalNdvi.val.k = "num" /\ query.historicalNdvi.val.n # 0

\* (current - historical) / historical * 100 as the fraction
\* ChangeNumerator / ChangeDenominator, ChangeDenominator > 0.
ChangeNumerator ==
  LET c == query.currentNdvi.val
      h == query.historicalNdvi.val
  IN  100 * (c.n * h.d - h.n * c.d) * Sign(h.n)

ChangeDenominator ==
  query.currentNdvi.val.d * Abs(query.historicalNdvi.val.n)

\* percentageChange > t
ChangeAbove(t) == ChangeNumerator > t * ChangeDenominator

\* The text t has one decimal and is within 0.05 of percentageChange.
ChangeText(t) ==
  LET r == parseFloat(t)
  IN  /\ Len(t) >= 3 /\ t[Len(t) - 1] = "."
      /\ r.k = "num"
      /\ 20 * Abs(r.n * ChangeDenominator - ChangeNumerator * r.d)
           <= ChangeDenominator * r.d

Handlers ==
  {"location", "service", "route", "suggestions", "historical", "weather",
   "weather_current"}

\* C15: every handler sends exactly one response per request: none before
\* the handler has finished, one when it has, with status 200, 400 or 500,
\* and every 400 or 500 body has the field `error`.
C15_ExactlyOneResponse ==
  /\ sent <= 1
  /\ pc # "done" => sent = 0
  /\ (pc = "done" /\ path \in Handlers)
       => /\ sent = 1
          /\ response.status \in {200, 400, 500}
          /\ response.status \in {400, 500}
               => "error" \in DOMAIN response.body

C15_Witness ==
  /\ pc = "done" /\ path = "weather"
  /\ response.status = 500 /\ sent = 1
  /\ "error" \in DOMAIN response.body

\* ------------------------------------------------------------------------
\* GET /api/weather
\* ------------------------------------------------------------------------
\* C20: a 200 response of GET /api/weather has as many forecast entries as
\* days were requested (7 when days is omitted), dated on consecutive days
\* from today, and metadata.forecastDays is the number of entries.
C20_ForecastLength ==
  (path = "weather" /\ response.status = 200)
    => LET forecast  == response.body.forecast
           requested == IF query.days.present THEN query.days.val
                        ELSE Num(7, 1)
       IN  /\ requested = Num(Len(forecast), 1)
           /\ \A j \in 1..Len(forecast) : forecast[j].date = j - 1
           /\ response.body.metadata.forecastDays = Num(Len(forecast), 1)


\* ------------------------------------------------------------------------
\* The reduction loop
\* ------------------------------------------------------------------------
\* Pixel j is counted: nir[j] + red[j] !== 0.
Counted(j) == ~ZeroDenominator(j)

\* The sum of the per-pixel outputs ndvi[j] over the counted pixels 1..n.
RECURSIVE SumOfCounted(_)
SumOfCounted(n) ==
  IF n = 0 THEN Num(0, 1)
  ELSE IF Counted(n) THEN JsAdd(SumOfCounted(n - 1), ndvi[n])
  ELSE SumOfCounted(n - 1)

\* C24: at the start of every iteration i of the reduction loop and at loop
\* exit the per-pixel output has exactly i entries, count is the number of
\* indices below i with nir + red != 0, 0 <= count <= i, and sum is the sum
\* of the per-pixel outputs of the counted indices.
C24_LoopInvariant ==
  (ReducerPath /\ pc \in {"loop", "returned", "done"})
    => /\ Len(ndvi) = i
       /\ count = Cardinality({j \in 1..i : Counted(j)})
       /\ 0 <= count /\ count <= i
       /\ sum = SumOfCounted(i)

\* An iteration starts after one counted and one uncounted pixel.
C24_Witness ==
  /\ ReducerPath /\ pc = "loop"
  /\ i = 2 /\ i < LoopBound
  /\ count = 1
  /\ \E j \in 1..2 : ~Counted(j)


\* ------------------------------------------------------------------------
\* compareWithHistorical: sign of the trend, division by zero
\* ------------------------------------------------------------------------
\* v lies in [-1, 1].
InNdviRange(v) == WithinRange(v, 1)

\* current > historical, for finite values
CurrentAbove ==
  LET c == query.currentNdvi.val
      h == query.historicalNdvi.val
  IN  c.n * h.d > h.n * c.d

\* current < historical, for finite values
CurrentBelow ==
  LET c == query.currentNdvi.val
      h == query.historicalNdvi.val
  IN  c.n * h.d < h.n * c.d

\* C28: for currentNdvi and nonzero historicalNdvi in [-1, 1] the trend is
\* improving or slightly_improving only if current > historical, and
\* declining or critical_decline only if current < historical.
C28_TrendFollowsSign ==
  (Compared /\ InNdviRange(query.currentNdvi.val)
     /\ InNdviRange(query.historicalNdvi.val))
    => LET trend == response.body.suggestions.historicalComparison.trend
       IN  /\ trend \in {"improving", "slightly_improving"} => CurrentAbove
           /\ trend \in {"declining", "critical_decline"} => CurrentBelow

\* C29: with historicalNdvi absent or 0 the comparison is "No historical
\* data available", 0, neutral; in every other case percentageChange is a
\* finite number.
C29_NoDivisionByZero ==
  (path = "suggestions" /\ response.status = 200)
    => LET hc == response.body.suggestions.historicalComparison
           h  == query.historicalNdvi
       IN  IF Missing(h) \/ h.val = Num(0, 1)
             THEN /\ hc.change = <<"No historical data available">>
                  /\ hc.percentageChange = Num(0, 1)
                  /\ hc.trend = "neutral"
           ELSE IF hc.trend = "neutral"
             THEN hc.percentageChange.k = "num"
           ELSE parseFloat(hc.percentageChange).k = "num"


\* ------------------------------------------------------------------------
\* Echoed coordinates
\* ------------------------------------------------------------------------
\* The coordinates a 200 response echoes ([none |-> TRUE] when it echoes
\* none).
Echoed ==
  IF path \in {"suggestions"} THEN response.body.metadata.location
  ELSE IF path \in {"historical", "weather", "weather_current", "location"}
    THEN [latitude  |-> response.body.location.latitude,
          longitude |-> response.body.location.longitude]
  ELSE IF path = "service" /\ ~response.body.coordinates.isNull
    THEN [latitude  |-> Num(response.body.coordinates.latitude, 1),
          longitude |-> Num(response.body.coordinates.longitude, 1)]
  ELSE [none |-> TRUE]

\* C25: a 200 response that echoes coordinates echoes a latitude in
\* [-90, 90] and a longitude in [-180, 180], never NaN: in suggestions,
\* suggestions/historical, weather, weather/current and location always, in
\* ndvi when `coordinates` is not null.
C25_EchoedCoordinatesValid ==
  (response.status = 200 /\ path \in Handlers /\ Echoed # [none |-> TRUE])
    => /\ WithinRange(Echoed.latitude, 90)
       /\ WithinRange(Echoed.longitude, 180)

C25_Witness ==
  /\ response.status = 200 /\ path = "weather"
  /\ Echoed = [latitude |-> Num(28, 1), longitude |-> Num(77, 1)]

\* ------------------------------------------------------------------------
\* POST /api/location
\* ------------------------------------------------------------------------
\* C27: POST /api/location answers 200 for every body whose latitude is a
\* number in [-90, 90] and whose longitude is a number in [-180, 180],
\* latitude 0 and longitude 0 included, and answers 400 "latitude and
\* longitude required" only when a field is absent from the body.
C27_ZeroCoordinatesAccepted ==
  (path = "location" /\ pc = "done")
    => /\ (WithinRange(query.latitude, 90) /\ WithinRange(query.longitude, 180))
            => response.status = 200
       /\ (response.status = 400
             /\ response.body.error = "latitude and longitude required")
            => (query.latitude = undefined \/ query.longitude = undefined)


\* ------------------------------------------------------------------------
\* The two file-backed reducers
\* ------------------------------------------------------------------------
\* C22: on the same rasters and declared dimensions the route handler and
\* calculateNdvi produce the same meanNdvi, sample, width and height.
C22_ReducersEquivalent ==
  (result # NoResult /\ response # NoResponse)
    => \A f \in ResultFields : response.body[f] = result[f]

\* Both have reduced a red raster longer than the cap against a shorter NIR
\* raster.
C22_Witness ==
  /\ result # NoResult /\ response # NoResponse
  /\ Len(redRaster) > maxPixels /\ Len(nirRaster) = 2
  /\ nirRaster[1] + redRaster[1] # 0
  /\ response.body.meanNdvi = result.meanNdvi


\* ------------------------------------------------------------------------
\* Termination of the reduction
\* ------------------------------------------------------------------------
\* The number of pixels to process: min(len(red), len(nir), maxPixels).
PixelsToProcess == Min(Min(Len(redRaster), Len(nirRaster)), maxPixels)

\* C23: the reduction loop of a file-backed reducer ends after exactly n
\* iterations, n the number of pixels to process, and a result is returned.
C23_TerminatesAfterN ==
  (FileBacked /\ pc \in {"returned", "done"} /\ threw = "none"
     /\ response.status # 400)
    => /\ "meanNdvi" \in DOMAIN result
       /\ i = PixelsToProcess


Generated == path = "simulated" /\ "latitude" \in DOMAIN query

\* C26: for a finite latitude both generated bands have the full band
\* length, every pixel has nir > red > 0, and the result has pixelCount equal
\* to the band length, every per-pixel NDVI strictly between 0 and 1, a
\* sample of the full sample length and a numeric meanNdvi strictly between
\* 0 and 1.
C26_GeneratedBands ==
  Generated
    => /\ Len(redRaster) = bandLength /\ Len(nirRaster) = bandLength
       /\ \A j \in 1..bandLength :
            nirRaster[j] > redRaster[j] /\ redRaster[j] > 0
       /\ \A j \in 1..Len(ndvi) :
            JsGt(ndvi[j], Num(0, 1)) /\ JsLt(ndvi[j], Num(1, 1))
       /\ pc = "done"
            => /\ threw = "none"
               /\ result.pixelCount = bandLength
               /\ Len(result.sample) = sampleEnd
               /\ result.meanNdvi.k = "num"
               /\ JsGt(result.meanNdvi, Num(0, 1))
               /\ JsLt(result.meanNdvi, Num(1, 1))

\* A result for the south pole whose first pixel has the largest red value
\* with the smallest NIR value.
C26_Witness ==
  /\ Generated /\ pc = "done"
  /\ query.latitude = -90
  /\ redRaster[1] = 109 /\ nirRaster[1] = 150
  /\ result.pixelCount = bandLength
  /\ result.sample[1] = Num(41, 259)


\* ------------------------------------------------------------------------
\* Soil types
\* ------------------------------------------------------------------------
\* C30: for every latitude in [-90, 90] and longitude in [-180, 180] the
\* soil type of every agricultural field and of the land use data is one of
\* the five soil types, never undefined.
C30_SoilTypeDefined ==
  (path = "areas" /\ pc = "done"
     /\ WithinRange(query.latitude, 90) /\ WithinRange(query.longitude, 180))
    => LET names == {soilTypes[t] : t \in DOMAIN soilTypes}
       IN  /\ result.landUseData.soilType \in names
           /\ \A f \in DOMAIN result.agriculturalFields :
                result.agriculturalFields[f].soilType \in names

====
